---- MODULE Spec2Model ----
(***************************************************************************)
(* AnimatedValue (src/src/animated/AnimatedValue.js): the value node of    *)
(* the animated dependency graph, its driver slots (_animation,            *)
(* _tracking), its listeners, and the two-phase propagation (_flush).      *)
(*                                                                         *)
(* Every method is an operator from a state record to a state record, so   *)
(* that a method calling another (setValue -> _updateValue -> _flush) is   *)
(* one atomic step, as in the single-threaded source.  The collaborators   *)
(* imported by the file (Animation, InteractionManager, guid, the graph    *)
(* nodes) are modelled at their interface.                                 *)
(***************************************************************************)
EXTENDS Integers, Sequences, FiniteSets

\* ---------------------------------------------------------------- bounds
\* Largest base value flattenOffset may produce.
MaxBase == 15
\* Listener ids guid() may hand out.
MaxGuid == 2
\* Interaction handles InteractionManager may hand out.
MaxHandles == 1
\* Largest node of the graphs propagation is checked on (nodes 0..MaxNode).
MaxNode == 3

Null == 0
\* Numbers handed to the constructor, setValue, setOffset and animation ticks.
Values == {0, 5, 10}
AnimationIds == {1, 2}
TrackingIds == {1, 2}
Callbacks == {Null, 1}
Results == {TRUE, FALSE}
Root == 0
Nodes == 0..6

VARIABLES _value, _offset, _animation, _tracking, _listeners,
          animations, interactions, guidNext, graph, log, op, returned

vars == <<_value, _offset, _animation, _tracking, _listeners,
          animations, interactions, guidNext, graph, log, op, returned>>

\* The whole state as one record, for the method operators below.
Cur == [_value |-> _value, _offset |-> _offset, _animation |-> _animation,
        _tracking |-> _tracking, _listeners |-> _listeners,
        animations |-> animations, interactions |-> interactions,
        guidNext |-> guidNext, graph |-> graph, log |-> log, op |-> op,
        returned |-> returned]

Apply(s) ==
    /\ _value' = s._value
    /\ _offset' = s._offset
    /\ _animation' = s._animation
    /\ _tracking' = s._tracking
    /\ _listeners' = s._listeners
    /\ animations' = s.animations
    /\ interactions' = s.interactions
    /\ guidNext' = s.guidNext
    /\ graph' = s.graph
    /\ log' = s.log
    /\ op' = s.op
    /\ returned' = s.returned

\* A call from outside starts a new trace of the calls the node makes.
Enter(call) == [Cur EXCEPT !.log = <<>>, !.op = call]

Emit(s, e) == [s EXCEPT !.log = Append(@, e)]

\* ------------------------------------------------------- the graph below
\* Two sources feeding one leaf (3) over two paths, a leaf (4) with a leaf
\* (5) beneath it, and a leaf (6) that is not below the value node.
DiamondGraph ==
    [children |-> [n \in Nodes |->
                      CASE n = 0 -> <<1, 2>>
                        [] n = 1 -> <<3>>
                        [] n = 2 -> <<3, 4>>
                        [] n = 4 -> <<5>>
                        [] OTHER -> <<>>],
     update |-> {3, 4, 5, 6}]

\* Every acyclic graph over 0..MaxNode whose edges lead from a smaller to a
\* larger node, with every choice of the nodes that expose update.
GraphNodes == 0..MaxNode

Edges == {e \in GraphNodes \X GraphNodes : e[1] < e[2]}

RECURSIVE SortedSeq(_)
SortedSeq(S) ==
    IF S = {} THEN <<>>
    ELSE LET m == CHOOSE x \in S : \A y \in S : x <= y IN <<m>> \o SortedSeq(S \ {m})

GraphOf(E, U) ==
    [children |-> [n \in GraphNodes |-> SortedSeq({j \in GraphNodes : <<n, j>> \in E})],
     update |-> U]

AcyclicGraphs == {GraphOf(E, U) : E \in SUBSET Edges, U \in SUBSET GraphNodes}

\* Set.prototype.add that keeps a second copy.
SetAdd_Append(styles, node) == Append(styles, node)

\* Set.prototype.add on an insertion-ordered Set.
SetAdd(styles, node) ==
    IF \E i \in 1..Len(styles) : styles[i] = node THEN styles ELSE Append(styles, node)

RECURSIVE findAnimatedStyles(_, _, _)
RECURSIVE forEachChild(_, _, _)
\* findAnimatedStyles that collects a node and goes on into its children.
findAnimatedStyles_Descend(g, node, styles) ==
    forEachChild(g, g.children[node],
                 IF node \in g.update THEN SetAdd(styles, node) ELSE styles)

findAnimatedStyles(g, node, styles) ==
    IF node \in g.update THEN SetAdd(styles, node)
    ELSE forEachChild(g, g.children[node], styles)

forEachChild(g, kids, styles) ==
    IF kids = <<>> THEN styles
    ELSE forEachChild(g, Tail(kids), findAnimatedStyles(g, Head(kids), styles))

RECURSIVE updateEach(_, _)
updateEach(s, styles) ==
    IF styles = <<>> THEN s
    ELSE updateEach(Emit(s, <<"update", Head(styles)>>), Tail(styles))

_flush(s, rootNode) == updateEach(s, findAnimatedStyles(s.graph, rootNode, <<>>))

\* ------------------------------------------------------------ collaborators
\* guid(): the next unused identifier.
guid(s) == s.guidNext + 1

\* InteractionManager.current.createInteractionHandle()
createInteractionHandle(s) ==
    LET h == s.interactions.next + 1 IN
    Emit([s EXCEPT !.interactions.next = h,
                   !.interactions.active = @ \cup {h}],
         <<"createInteractionHandle", h>>)

\* InteractionManager.current.clearInteractionHandle(handle)
clearInteractionHandle(s, handle) ==
    Emit([s EXCEPT !.interactions.active = @ \ {handle},
                   !.interactions.cleared[handle] = @ + 1],
         <<"clearInteractionHandle", handle>>)

\* animation.stop(): synchronous, and never calls the onEnd passed to start.
AnimationStop(s, a) ==
    Emit([s EXCEPT !.animations[a].active = FALSE,
                   !.animations[a].handle = Null,
                   !.animations[a].callback = Null],
         <<"stop", a>>)

\* animation.start(fromValue, onUpdate, onEnd, previousAnimation): the
\* animation keeps the two closures, which carry handle and callback.
AnimationStart(s, a, fromValue, handle, callback, previousAnimation) ==
    Emit([s EXCEPT !.animations[a].active = TRUE,
                   !.animations[a].handle = handle,
                   !.animations[a].callback = callback],
         <<"start", a, fromValue, previousAnimation>>)

\* tracking.__detach()
TrackingDetach(s, t) == Emit(s, <<"detach", t>>)

\* ------------------------------------------------------------ AnimatedValue
\* __getValue that forgets the offset.
__getValue_NoOffset(s) == s._value

__getValue(s) == s._value + s._offset

RECURSIVE notifyListeners(_, _)
notifyListeners(s, keys) ==
    IF keys = {} THEN s
    ELSE LET key == CHOOSE k \in keys : \A j \in keys : k <= j IN
         notifyListeners(Emit(s, <<"listener", key, __getValue(s)>>), keys \ {key})

\* _updateValue that notifies the listeners before it writes the base.
_updateValue_NotifyFirst(s, value) ==
    LET s1 == notifyListeners(s, s._listeners)
        s2 == Emit([s1 EXCEPT !._value = value], <<"value", value>>)
    IN  _flush(s2, Root)

\* _updateValue that notifies the listeners before the leaves are recomputed.
_updateValue_FlushLast(s, value) ==
    LET s1 == Emit([s EXCEPT !._value = value], <<"value", value>>)
        s2 == notifyListeners(s1, s1._listeners)
    IN  _flush(s2, Root)

_updateValue(s, value) ==
    LET s1 == Emit([s EXCEPT !._value = value], <<"value", value>>)
        s2 == _flush(s1, Root)
    IN  notifyListeners(s2, s2._listeners)

\* setValue without the interruption of the running animation.
setValue_NoStop(s, value) == _updateValue(s, value)

setValue(s, value) ==
    LET s1 == IF s._animation # Null
              THEN [AnimationStop(s, s._animation) EXCEPT !._animation = Null]
              ELSE s
    IN  _updateValue(s1, value)

\* setOffset that pushes the new effective value through the graph.
setOffset_Update(s, offset) == _updateValue([s EXCEPT !._offset = offset], s._value)

setOffset(s, offset) == [s EXCEPT !._offset = offset]

\* flattenOffset that merges the offset and keeps it.
flattenOffset_KeepOffset(s) == [s EXCEPT !._value = s._value + s._offset]

flattenOffset(s) == [s EXCEPT !._value = s._value + s._offset, !._offset = 0]

addListener(s, callback) ==
    LET id == guid(s) IN
    Emit([s EXCEPT !.guidNext = id,
                   !._listeners = @ \cup {id},
                   !.returned = @ \cup {id}],
         <<"return", id>>)

\* removeListener that drops the whole registry.
removeListener_All(s, id) == [s EXCEPT !._listeners = {}]

removeListener(s, id) == [s EXCEPT !._listeners = @ \ {id}]

removeAllListeners(s) == [s EXCEPT !._listeners = {}]

stopTracking(s) ==
    LET s1 == IF s._tracking # Null THEN TrackingDetach(s, s._tracking) ELSE s
    IN  [s1 EXCEPT !._tracking = Null]

\* track that drops the old relationship without detaching it.
track_NoDetach(s, tracking) == [s EXCEPT !._tracking = tracking]

track(s, tracking) == [stopTracking(s) EXCEPT !._tracking = tracking]

\* stopAnimation that unlinks the animation without stopping it.
stopAnimation_Unlink(s, callback) ==
    LET s1 == stopTracking(s)
        s3 == [s1 EXCEPT !._animation = Null]
    IN  IF callback # Null THEN Emit(s3, <<"stopCallback", __getValue(s3)>>) ELSE s3

\* stopAnimation that leaves the tracking relationship attached.
stopAnimation_KeepTracking(s, callback) ==
    LET s2 == IF s._animation # Null THEN AnimationStop(s, s._animation) ELSE s
        s3 == [s2 EXCEPT !._animation = Null]
    IN  IF callback # Null THEN Emit(s3, <<"stopCallback", __getValue(s3)>>) ELSE s3

stopAnimation(s, callback) ==
    LET s1 == stopTracking(s)
        s2 == IF s1._animation # Null THEN AnimationStop(s1, s1._animation) ELSE s1
        s3 == [s2 EXCEPT !._animation = Null]
    IN  IF callback # Null THEN Emit(s3, <<"stopCallback", __getValue(s3)>>) ELSE s3

__detach(s) == stopAnimation(s, Null)

\* The onUpdate closure handed to animation.start.
onUpdate(s, value) == _updateValue(s, value)

\* onEnd that forgets the interaction handle.
onEnd_KeepHandle(s, a, result) ==
    LET callback == s.animations[a].callback
        s1 == [Emit(s, <<"onEnd", a>>) EXCEPT !._animation = Null]
    IN  IF callback # Null THEN Emit(s1, <<"callback", a, IF result THEN 1 ELSE 0>>) ELSE s1

\* onEnd that leaves the finished animation installed.
onEnd_KeepAnimation(s, a, result) ==
    LET handle == s.animations[a].handle
        callback == s.animations[a].callback
        s1 == Emit(s, <<"onEnd", a>>)
        s2 == IF handle # Null THEN clearInteractionHandle(s1, handle) ELSE s1
    IN  IF callback # Null THEN Emit(s2, <<"callback", a, IF result THEN 1 ELSE 0>>) ELSE s2

\* The onEnd closure handed to animation a's start.
onEnd(s, a, result) ==
    LET handle == s.animations[a].handle
        callback == s.animations[a].callback
        s1 == [Emit(s, <<"onEnd", a>>) EXCEPT !._animation = Null]
        s2 == IF handle # Null THEN clearInteractionHandle(s1, handle) ELSE s1
    IN  IF callback # Null THEN Emit(s2, <<"callback", a, IF result THEN 1 ELSE 0>>) ELSE s2

\* animate that starts the animation from the effective value.
animate_FromEffective(s, animation, callback) ==
    LET interaction == s.animations[animation].__isInteraction
        handle == IF interaction THEN s.interactions.next + 1 ELSE Null
        s1 == IF interaction THEN createInteractionHandle(s) ELSE s
        previousAnimation == s1._animation
        s2 == IF s1._animation # Null THEN AnimationStop(s1, s1._animation) ELSE s1
        s3 == Emit([s2 EXCEPT !._animation = animation], <<"install", animation>>)
    IN  AnimationStart(s3, animation, __getValue(s3), handle, callback, previousAnimation)

\* animate that installs the new animation over the running one.
animate_NoStop(s, animation, callback) ==
    LET interaction == s.animations[animation].__isInteraction
        handle == IF interaction THEN s.interactions.next + 1 ELSE Null
        s1 == IF interaction THEN createInteractionHandle(s) ELSE s
        previousAnimation == s1._animation
        s3 == Emit([s1 EXCEPT !._animation = animation], <<"install", animation>>)
    IN  AnimationStart(s3, animation, s3._value, handle, callback, previousAnimation)

animate(s, animation, callback) ==
    LET interaction == s.animations[animation].__isInteraction
        handle == IF interaction THEN s.interactions.next + 1 ELSE Null
        s1 == IF interaction THEN createInteractionHandle(s) ELSE s
        previousAnimation == s1._animation
        s2 == IF s1._animation # Null THEN AnimationStop(s1, s1._animation) ELSE s1
        s3 == Emit([s2 EXCEPT !._animation = animation], <<"install", animation>>)
    IN  AnimationStart(s3, animation, s3._value, handle, callback, previousAnimation)

\* The animation comes to rest: it calls the onEnd it was started with, once.
AnimationEnd(s, a, result) ==
    LET s1 == onEnd([s EXCEPT !.animations[a].active = FALSE], a, result)
    IN  [s1 EXCEPT !.animations[a].handle = Null, !.animations[a].callback = Null]

\* ------------------------------------------------------------------ actions
\* The state after new AnimatedValue(value).  The constructor leaves
\* _tracking undefined, which every test in the class treats like null.
\* Animation 1 declares __isInteraction, animation 2 does not.
Init ==
    /\ _value \in Values
    /\ _offset = 0
    /\ _animation = Null
    /\ _tracking = Null
    /\ _listeners = {}
    /\ animations = [a \in AnimationIds |->
                        [active |-> FALSE, handle |-> Null, callback |-> Null,
                         __isInteraction |-> (a = 1)]]
    /\ interactions = [next |-> 0, active |-> {}, cleared |-> [h \in 1..(MaxHandles + 1) |-> 0]]
    /\ guidNext = 0
    /\ graph = DiamondGraph
    /\ log = <<>>
    /\ op = <<"new">>
    /\ returned = {}

SetValue == \E v \in Values : Apply(setValue(Enter(<<"setValue", v>>), v))

SetOffset == \E o \in Values : Apply(setOffset(Enter(<<"setOffset", o>>), o))

FlattenOffset ==
    /\ _value + _offset <= MaxBase
    /\ Apply(flattenOffset(Enter(<<"flattenOffset">>)))

AddListener ==
    /\ guidNext < MaxGuid
    /\ Apply(addListener(Enter(<<"addListener">>), 1))

RemoveListener ==
    \E id \in 1..MaxGuid : Apply(removeListener(Enter(<<"removeListener", id>>), id))

RemoveAllListeners == Apply(removeAllListeners(Enter(<<"removeAllListeners">>)))

StopAnimation ==
    \E cb \in Callbacks : Apply(stopAnimation(Enter(<<"stopAnimation", cb>>), cb))

Detach == Apply(__detach(Enter(<<"__detach">>)))

Animate ==
    \E a \in AnimationIds, cb \in Callbacks :
        /\ animations[a].__isInteraction => interactions.next < MaxHandles
        /\ Apply(animate(Enter(<<"animate", a, cb>>), a, cb))

Track == \E t \in TrackingIds : Apply(track(Enter(<<"track", t>>), t))

StopTracking == Apply(stopTracking(Enter(<<"stopTracking">>)))

\* A running animation produces a frame.  An animation calls the closures it
\* was started with only between its start and its stop or end.
Tick ==
    \E a \in AnimationIds, v \in Values :
        /\ animations[a].active
        /\ Apply(onUpdate(Enter(<<"tick", a, v>>), v))

\* A running animation comes to rest.
Settle ==
    \E a \in AnimationIds, r \in Results :
        /\ animations[a].active
        /\ Apply(AnimationEnd(Enter(<<"settle", a, IF r THEN 1 ELSE 0>>), a, r))

\* A propagation started at any node of any graph, nothing else going on.
InitFlush ==
    /\ _value = 0
    /\ _offset = 0
    /\ _animation = Null
    /\ _tracking = Null
    /\ _listeners = {}
    /\ animations = [a \in AnimationIds |->
                        [active |-> FALSE, handle |-> Null, callback |-> Null,
                         __isInteraction |-> (a = 1)]]
    /\ interactions = [next |-> 0, active |-> {}, cleared |-> [h \in 1..(MaxHandles + 1) |-> 0]]
    /\ guidNext = 0
    /\ graph \in AcyclicGraphs
    /\ log = <<>>
    /\ op = <<"new">>
    /\ returned = {}

Flush == \E n \in GraphNodes : Apply(_flush(Enter(<<"flush", n>>), n))

NextFlush == Flush

SpecFlush == InitFlush /\ [][NextFlush]_vars

Next ==
    \/ SetValue
    \/ SetOffset
    \/ FlattenOffset
    \/ AddListener
    \/ RemoveListener
    \/ RemoveAllListeners
    \/ StopAnimation
    \/ Detach
    \/ Animate
    \/ Track
    \/ StopTracking
    \/ Tick
    \/ Settle

Spec == Init /\ [][Next]_vars

\* ------------------------------------------------------------ trace queries
\* The positions of the events of one kind in a trace.
Idx(l, kind) == {i \in 1..Len(l) : l[i][1] = kind}

\* How often an event occurs in a trace.
Occurs(l, e) == Cardinality({i \in 1..Len(l) : l[i] = e})

\* The leaves a propagation from the value node recomputes, in order.
Leaves == findAnimatedStyles(graph, Root, <<>>)

\* ------------------------------------------------------------------- claims

\* C1: a value node never has an active animation and a tracking
\* relationship at the same time.
C1_NeverAnimationAndTracking == ~(_animation # Null /\ _tracking # Null)

\* C2: after setValue or animate returns, the node holds no tracking
\* relationship.
C2_TrackingTornDown == op[1] \in {"setValue", "animate"} => _tracking = Null

\* C3: animate(B) while A is the active driver stops A exactly once, calls
\* neither A's completion callback nor its caller's callback, and starts B at
\* once, after the stop, as the only active animation; where A was the only
\* driver (no tracking), B is the only driver afterwards.
C3_AnimateSupersedes ==
    [][\A a \in AnimationIds :
          (_animation = a /\ op'[1] = "animate") =>
              /\ Occurs(log', <<"stop", a>>) = 1
              /\ Cardinality(Idx(log', "stop")) = 1
              /\ Idx(log', "onEnd") = {}
              /\ Idx(log', "callback") = {}
              /\ _animation' = op'[2]
              /\ \A c \in AnimationIds : animations'[c].active <=> c = op'[2]
              /\ log'[Len(log')] = <<"start", op'[2], _value, a>>
              /\ \A i \in Idx(log', "stop") : i < Len(log')
              /\ _tracking = Null => _tracking' = Null]_vars

C3_Witness ==
    /\ op[1] = "animate"
    /\ _animation = op[2]
    /\ _tracking = Null
    /\ \E a \in AnimationIds \ {op[2]} : Occurs(log, <<"stop", a>>) = 1

\* C4: __detach while an interaction-sensitive animation is active leaves no
\* animation, no tracking, and the handle acquired for that animation released.
C4_DetachReleasesHandle ==
    [][(op'[1] = "__detach" /\ _animation # Null /\ animations[_animation].handle # Null) =>
          /\ _animation' = Null
          /\ _tracking' = Null
          /\ animations[_animation].handle \notin interactions'.active]_vars

\* C5: an interaction handle is outstanding only while the animation it was
\* acquired for is the active driver, and no handle is cleared twice.
C5_HandleOnlyWhileActive ==
    /\ \A h \in interactions.active :
          _animation # Null /\ animations[_animation].handle = h
    /\ \A h \in DOMAIN interactions.cleared : interactions.cleared[h] <= 1

\* C6: setValue while an animation is active stops it first, once, calls no
\* completion or caller callback, leaves no active animation, then writes the
\* base, recomputes the leaves and notifies every listener.
C6_SetValueInterrupts ==
    [][\A a \in AnimationIds :
          (_animation = a /\ op'[1] = "setValue") =>
              /\ log'[1] = <<"stop", a>>
              /\ Cardinality(Idx(log', "stop")) = 1
              /\ Idx(log', "onEnd") = {}
              /\ Idx(log', "callback") = {}
              /\ _animation' = Null
              /\ ~animations'[a].active
              /\ log'[2] = <<"value", op'[2]>>
              /\ _value' = op'[2]
              /\ Cardinality(Idx(log', "update")) = Len(Leaves)
              /\ \A k \in 1..Len(Leaves) : Occurs(log', <<"update", Leaves[k]>>) = 1
              /\ \A id \in _listeners : Occurs(log', <<"listener", id, op'[2] + _offset>>) = 1
              /\ \A i \in Idx(log', "update"), j \in Idx(log', "listener") : 2 < i /\ i < j]_vars

C6_Witness ==
    /\ op[1] = "setValue"
    /\ Len(log) > 0 /\ log[1][1] = "stop"
    /\ _animation = Null
    /\ Idx(log, "update") # {}
    /\ Idx(log, "listener") # {}

\* C7: right after setValue(v) the effective value is v plus the offset in
\* force; setOffset(10) then setValue(5) reads 15.
C7_SetValueEffective ==
    op[1] = "setValue" =>
        /\ __getValue(Cur) = op[2] + _offset
        /\ (op[2] = 5 /\ _offset = 10) => __getValue(Cur) = 15

C7_Witness == op = <<"setValue", 5>> /\ _offset = 10 /\ __getValue(Cur) = 15

\* C8: flattenOffset keeps the effective value, makes the base b + o and the
\* offset 0, changes nothing when applied again, recomputes no leaf, notifies
\* no listener and leaves animation and tracking alone.
C8_FlattenOffset ==
    [][op'[1] = "flattenOffset" =>
          /\ _value' + _offset' = _value + _offset
          /\ _value' = _value + _offset
          /\ _offset' = 0
          /\ log' = <<>>
          /\ UNCHANGED <<_animation, _tracking, _listeners, animations, interactions>>
          /\ op[1] = "flattenOffset" => UNCHANGED <<_value, _offset>>]_vars

C8_Witness ==
    /\ op[1] = "flattenOffset"
    /\ _value = 15
    /\ _offset = 0
    /\ _animation # Null

\* C9: setOffset changes the offset and nothing else: no leaf is recomputed, no
\* listener notified, base, animation and tracking stay; the next read and the
\* next update deliver base plus the new offset.
C9_SetOffsetOnly ==
    [][/\ op'[1] = "setOffset" =>
              /\ _offset' = op'[2]
              /\ log' = <<>>
              /\ _value' + _offset' = _value + op'[2]
              /\ UNCHANGED <<_value, _animation, _tracking, _listeners, animations,
                             interactions, guidNext, graph>>
       /\ (op[1] = "setOffset" /\ op'[1] \in {"setValue", "tick"}) =>
              \A i \in Idx(log', "listener") : log'[i][3] = _value' + op[2]]_vars

C9_Witness ==
    /\ op = <<"setOffset", 10>>
    /\ _offset = 10
    /\ _animation # Null
    /\ _listeners # {}

\* C10: each setValue and each tick invokes every registered listener exactly
\* once with base + offset as they are after the update, and addListener
\* returns a handle it never returned before.
C10_ListenersNotifiedOnce ==
    [][/\ op'[1] \in {"setValue", "tick"} =>
              /\ \A id \in _listeners :
                    Occurs(log', <<"listener", id, _value' + _offset'>>) = 1
              /\ Cardinality(Idx(log', "listener")) = Cardinality(_listeners)
       /\ op'[1] = "addListener" =>
              /\ log'[Len(log')][1] = "return"
              /\ log'[Len(log')][2] \notin returned
              /\ log'[Len(log')][2] \in _listeners']_vars

C10_Witness ==
    /\ op[1] = "tick"
    /\ Cardinality(_listeners) = 2
    /\ _offset # 0
    /\ Cardinality(Idx(log, "listener")) = 2

\* C11: removeListener(h) takes h, and only h, out of the registry, so later
\* updates notify exactly the listeners still registered and a removed handle
\* never comes back; on an unknown handle it changes nothing; after
\* removeAllListeners nobody is registered.
C11_RemoveListener ==
    [][/\ op'[1] = "removeListener" =>
              /\ _listeners' = _listeners \ {op'[2]}
              /\ op'[2] \notin _listeners => _listeners' = _listeners
              /\ log' = <<>>
              /\ UNCHANGED <<_value, _offset, _animation, _tracking, animations,
                             interactions, guidNext, graph, returned>>
       /\ op'[1] = "removeAllListeners" =>
              /\ _listeners' = {}
              /\ log' = <<>>
              /\ UNCHANGED <<_value, _offset, _animation, _tracking, animations,
                             interactions, guidNext, graph, returned>>
       /\ \A h \in returned \ _listeners : h \notin _listeners'
       /\ op'[1] \in {"setValue", "tick"} =>
              {log'[i][2] : i \in Idx(log', "listener")} = _listeners]_vars

C11_Witness ==
    /\ op[1] \in {"setValue", "tick"}
    /\ returned = {1, 2}
    /\ _listeners = {2}
    /\ {log[i][2] : i \in Idx(log, "listener")} = {2}

\* C12: stopAnimation(cb), whatever is active, detaches the tracking (if any)
\* once, stops the animation (if any) once without its completion callback,
\* and then calls cb once with base + offset; afterwards the node has no
\* animation and no tracking, and base and offset are as before.
C12_StopAnimation ==
    [][op'[1] = "stopAnimation" =>
          /\ Cardinality(Idx(log', "detach")) = (IF _tracking # Null THEN 1 ELSE 0)
          /\ _tracking # Null => Occurs(log', <<"detach", _tracking>>) = 1
          /\ Cardinality(Idx(log', "stop")) = (IF _animation # Null THEN 1 ELSE 0)
          /\ _animation # Null => Occurs(log', <<"stop", _animation>>) = 1
          /\ Idx(log', "onEnd") = {}
          /\ Idx(log', "callback") = {}
          /\ Cardinality(Idx(log', "stopCallback")) = (IF op'[2] # Null THEN 1 ELSE 0)
          /\ op'[2] # Null => log'[Len(log')] = <<"stopCallback", _value + _offset>>
          /\ _animation' = Null
          /\ _tracking' = Null
          /\ \A a \in AnimationIds : ~animations'[a].active
          /\ UNCHANGED <<_value, _offset>>]_vars

C12_Witness ==
    /\ op = <<"stopAnimation", 1>>
    /\ Len(log) = 3
    /\ log[1][1] = "detach"
    /\ log[2][1] = "stop"
    /\ log[3] = <<"stopCallback", _value + _offset>>
    /\ _offset # 0

\* ------------------------------------------------------------ graph queries
\* S together with the children of its nodes; with stop, an update-exposing
\* node's children are left out.
Step(g, S, stop) ==
    S \cup UNION {{g.children[n][k] : k \in 1..Len(g.children[n])} :
                     n \in {m \in S : ~(stop /\ m \in g.update)}}

RECURSIVE Closure(_, _, _)
Closure(g, S, stop) ==
    IF Step(g, S, stop) = S THEN S ELSE Closure(g, Step(g, S, stop), stop)

\* The update-exposing nodes reachable from root over any path.
ReachableUpdates(g, root) == Closure(g, {root}, FALSE) \cap g.update

\* The update-exposing nodes reachable from root over a path whose earlier
\* nodes expose no update.
FirstUpdates(g, root) == Closure(g, {root}, TRUE) \cap g.update

C20_Discovery ==
    op[1] = "flush" =>
        /\ Len(log) <= Cardinality(GraphNodes)
        /\ {log[i][2] : i \in Idx(log, "update")} = FirstUpdates(graph, op[2])
        /\ op[2] \in graph.update => log = <<<<"update", op[2]>>>>
        /\ \A n \in ReachableUpdates(graph, op[2]) \ FirstUpdates(graph, op[2]) :
              Occurs(log, <<"update", n>>) = 0

\* Node 2 exposes update and lies only beneath node 1, which exposes it too.
C20_Witness ==
    /\ op = <<"flush", 0>>
    /\ graph.update = {1, 2}
    /\ graph.children[0] = <<1>>
    /\ graph.children[1] = <<2>>
    /\ log = <<<<"update", 1>>>>

\* C14: within one update the base is written first, then every leaf is
\* recomputed, and only then is any listener notified.
C14_UpdateOrder ==
    op[1] \in {"setValue", "tick"} =>
        /\ Cardinality(Idx(log, "value")) = 1
        /\ \A v \in Idx(log, "value"), u \in Idx(log, "update") : v < u
        /\ \A v \in Idx(log, "value"), l \in Idx(log, "listener") : v < l
        /\ \A u \in Idx(log, "update"), l \in Idx(log, "listener") : u < l
        /\ \A k \in 1..Len(Leaves) : \A l \in Idx(log, "listener") :
              \E u \in 1..(l - 1) : log[u] = <<"update", Leaves[k]>>
        /\ \A v \in Idx(log, "value") : log[v][2] = _value

C14_Witness ==
    /\ op[1] = "tick"
    /\ Cardinality(Idx(log, "update")) = 2
    /\ Cardinality(Idx(log, "listener")) = 2
    /\ log[1][1] = "value"

\* C15: when the active animation settles, the closure clears the node's
\* animation, then releases the interaction handle acquired for it (if any,
\* and no handle otherwise), then calls the caller's callback (if any) once
\* with the animation's result.
C15_SettleOrder ==
    [][op'[1] = "settle" =>
          LET a == op'[2]
              handle == animations[a].handle
              callback == animations[a].callback
          IN  /\ log' = <<<<"onEnd", a>>>>
                        \o (IF handle # Null
                            THEN <<<<"clearInteractionHandle", handle>>>> ELSE <<>>)
                        \o (IF callback # Null
                            THEN <<<<"callback", a, op'[3]>>>> ELSE <<>>)
              /\ _animation' = Null
              /\ handle # Null =>
                    /\ handle \in interactions.active
                    /\ interactions'.active = interactions.active \ {handle}
                    /\ interactions'.cleared[handle] = 1
              /\ handle = Null => interactions' = interactions
              /\ ~animations[a].__isInteraction => handle = Null
              /\ UNCHANGED <<_value, _offset, _tracking, _listeners>>]_vars

C15_Witness ==
    /\ op[1] = "settle"
    /\ Len(log) = 3
    /\ log[2][1] = "clearInteractionHandle"
    /\ log[3][1] = "callback"
    /\ _animation = Null
    /\ interactions.active = {}

\* C16: a tick or settle callback only ever comes from the animation that is
\* the node's installed driver: once an animation has been superseded, set
\* over or stopped, none of its callbacks writes the base, clears or replaces
\* the driver, recomputes a leaf or notifies a listener.
C16_NoStaleCallback ==
    [][/\ op'[1] \in {"tick", "settle"} => _animation = op'[2]
       /\ \A a \in AnimationIds :
             (animations[a].active /\ ~animations'[a].active) =>
                 (Occurs(log', <<"stop", a>>) = 1 \/ op'[1] = "settle")
       /\ \A a \in AnimationIds : animations'[a].active => _animation' = a]_vars

\* Animation 2 ticks after animation 1 was started and then superseded or
\* stopped (its handle is still outstanding).
C16_Witness ==
    /\ op[1] = "tick"
    /\ op[2] = 2
    /\ _animation = 2
    /\ ~animations[1].active
    /\ interactions.active = {1}

\* C17: animate first acquires the interaction handle (if the animation is
\* interaction-sensitive), then stops the previous driver (if any), then
\* installs the new animation, then starts it with the base value and the
\* driver that was active before the call (or none).
C17_AnimateOrder ==
    [][op'[1] = "animate" =>
          /\ log' = (IF animations[op'[2]].__isInteraction
                     THEN <<<<"createInteractionHandle", interactions.next + 1>>>>
                     ELSE <<>>)
                    \o (IF _animation # Null THEN <<<<"stop", _animation>>>> ELSE <<>>)
                    \o <<<<"install", op'[2]>>>>
                    \o <<<<"start", op'[2], _value, _animation>>>>
          /\ _animation' = op'[2]
          /\ UNCHANGED <<_value, _offset>>]_vars

C17_Witness ==
    /\ op[1] = "animate"
    /\ Len(log) = 4
    /\ log[1][1] = "createInteractionHandle"
    /\ log[2][1] = "stop"
    /\ log[4] = <<"start", op[2], _value, log[2][2]>>
    /\ _offset # 0

\* C18: track(T2) detaches the current relationship once (if there is one) and
\* installs T2; stopTracking detaches the current relationship once (if there
\* is one) and leaves none, so a second stopTracking detaches nothing; neither
\* changes base, offset or listeners, recomputes a leaf or notifies a listener.
C18_Tracking ==
    [][op'[1] \in {"track", "stopTracking"} =>
          /\ log' = (IF _tracking # Null THEN <<<<"detach", _tracking>>>> ELSE <<>>)
          /\ _tracking' = (IF op'[1] = "track" THEN op'[2] ELSE Null)
          /\ (op[1] = "stopTracking" /\ op'[1] = "stopTracking") => log' = <<>>
          /\ UNCHANGED <<_value, _offset, _listeners>>]_vars

C18_Witness ==
    /\ op = <<"track", 2>>
    /\ log = <<<<"detach", 1>>>>
    /\ _tracking = 2

\* C19: the node calls stop() only on an animation that is running (started
\* and neither stopped nor settled since), and at most once in one call.
C19_StopOncePerStart ==
    [][/\ \A i \in Idx(log', "stop") : animations[log'[i][2]].active
       /\ Cardinality(Idx(log', "stop")) <= 1]_vars

\* Animation 2 is stopped after animation 1 has settled.
C19_Witness ==
    /\ op[1] = "setValue"
    /\ log[1] = <<"stop", 2>>
    /\ interactions.cleared[1] = 1

====
